---- MODULE Spec2Model ----
(***************************************************************************)
(* Backward taint analysis of crash-blamer (lib/Analysis/TaintAnalysis.cpp) *)
(* as a state machine: the module walk (runOnBlameModule), the frame scan   *)
(* (runOnBlameMF), seeding (startTaint), propagation (propagateTaint), the  *)
(* taint list operations and the equality of TaintInfo.                     *)
(*                                                                         *)
(* The crash trace is an input: it is revealed to the walk one frame, one   *)
(* basic block and one instruction at a time, each drawn from a bounded set *)
(* at the moment the loops of the code reach it.                            *)
(***************************************************************************)
EXTENDS Integers, Sequences, FiniteSets, TLC

\* ------------------------------------------------------------------ bounds
\* frames of one BlameModule
MaxFrames == 2
\* steps of the two loops of runOnBlameMF over one frame: instructions
\* visited and blocks left
MaxSteps == 3
\* elements of a taint list a single call of propagateTaint is applied to
MaxList == 2

\* ------------------------------------------------------- 64-bit arithmetic
\* A uint64_t is four 16-bit limbs, least significant first.
LimbBase == 65536
NibbleShift == 4096

Zero64 == <<0, 0, 0, 0>>
Max64 == <<LimbBase - 1, LimbBase - 1, LimbBase - 1, LimbBase - 1>>

\* v * 16 modulo 2^64
Shl4(v) ==
  << (v[1] * 16) % LimbBase,
     (v[2] * 16 + v[1] \div NibbleShift) % LimbBase,
     (v[3] * 16 + v[2] \div NibbleShift) % LimbBase,
     (v[4] * 16 + v[3] \div NibbleShift) % LimbBase >>

\* a + b modulo 2^64
Add64(a, b) ==
  LET s1 == a[1] + b[1]
      s2 == a[2] + b[2] + s1 \div LimbBase
      s3 == a[3] + b[3] + s2 \div LimbBase
      s4 == a[4] + b[4] + s3 \div LimbBase
  IN  << s1 % LimbBase, s2 % LimbBase, s3 % LimbBase, s4 % LimbBase >>

\* the conversion int64_t -> uint64_t of a displacement (|d| < 2^16)
ToU64(d) ==
  IF d >= 0 THEN << d, 0, 0, 0 >>
  ELSE << LimbBase + d, LimbBase - 1, LimbBase - 1, LimbBase - 1 >>

\* SS << std::hex << RegValue; SS >> RealAddr;  a string is the sequence of
\* the values of its hexadecimal digits.  A value that does not fit 64 bits
\* makes the extraction fail and store the largest uint64_t.
RECURSIVE ParseHexFrom(_, _, _)
ParseHexFrom(s, i, acc) ==
  IF i > Len(s) THEN acc
  ELSE IF acc[4] \div NibbleShift # 0 THEN Max64
  ELSE ParseHexFrom(s, i + 1, Add64(Shl4(acc), << s[i], 0, 0, 0 >>))

ParseHex(s) == ParseHexFrom(s, 1, Zero64)

\* ---------------------------------------------------------------- operands
\* register names as getRegAsmName(...).lower() gives them
Regs == {"rax", "rsp", "rbp"}

NullOp == [k |-> "null", reg |-> "none"]
ImmOp == [k |-> "imm", reg |-> "none"]
RegOp(r) == [k |-> "reg", reg |-> r]

\* llvm::Optional<int64_t>: <<>> is None, <<d>> holds d
NoOffset == << >>
HasValue(o) == o # << >>

\* the register snapshot of a frame: the string getRegValueFromCrash returns,
\* "" (the empty sequence) when the core file has no value
NoValue == << >>
RspValue == << 1, 0 >>
RbpValue == << 2, 0 >>
Snapshots ==
  { [r \in Regs |-> IF r = "rsp" THEN a ELSE IF r = "rbp" THEN b ELSE NoValue] :
      a \in {NoValue, RspValue}, b \in {NoValue, RbpValue} }

\* ---------------------------------------------------------------- TaintInfo
TaintInfo(op, off) ==
  [Op |-> op, Offset |-> off, IsConcreteMemory |-> FALSE,
   ConcreteMemoryAddress |-> Zero64]

IsTaintMemAddr(T) == T.IsConcreteMemory
GetTaintMemAddr(T) == T.ConcreteMemoryAddress

\* operator== without the test of line 23: descriptors of which one only is
\* resolved are compared by their registers
OperatorEq_NoFlagTest(T1, T2) ==
  IF IsTaintMemAddr(T1) /\ IsTaintMemAddr(T2)
  THEN GetTaintMemAddr(T1) = GetTaintMemAddr(T2)
  ELSE T1.Op.reg = T2.Op.reg

\* operator== with the registers compared before the addresses
OperatorEq_RegFirst(T1, T2) ==
  IF IsTaintMemAddr(T1) # IsTaintMemAddr(T2) THEN FALSE
  ELSE IF T1.Op.reg # T2.Op.reg THEN FALSE
  ELSE IF IsTaintMemAddr(T1) /\ IsTaintMemAddr(T2)
       THEN GetTaintMemAddr(T1) = GetTaintMemAddr(T2)
  ELSE TRUE

\* operator==(const TaintInfo &, const TaintInfo &)
OperatorEq(T1, T2) ==
  IF IsTaintMemAddr(T1) # IsTaintMemAddr(T2) THEN FALSE
  ELSE IF IsTaintMemAddr(T1) /\ IsTaintMemAddr(T2)
       THEN GetTaintMemAddr(T1) = GetTaintMemAddr(T2)
  ELSE IF T1.Op.reg # T2.Op.reg THEN FALSE
  ELSE TRUE

\* operator!= written apart from operator==: descriptors of different
\* displacements are unequal as well
OperatorNe_ByOffset(T1, T2) ==
  ~OperatorEq(T1, T2) \/ T1.Offset # T2.Offset

OperatorNe(T1, T2) == ~OperatorEq(T1, T2)

\* calculateMemAddr without the test of the register name of line 58
calculateMemAddr_AnyRegister(Ti, regs) ==
  IF Ti.Op.k = "imm" \/ ~HasValue(Ti.Offset) THEN Ti
  ELSE LET RegName == Ti.Op.reg
           RegValue == regs[RegName]
       IN  IF RegValue = NoValue
           THEN [Ti EXCEPT !.IsConcreteMemory = FALSE]
           ELSE [Ti EXCEPT !.IsConcreteMemory = TRUE,
                           !.ConcreteMemoryAddress =
                              Add64(ParseHex(RegValue), ToU64(Ti.Offset[1]))]

\* calculateMemAddr(Ti); regs is the snapshot of the MachineFunction the
\* operand belongs to
calculateMemAddr(Ti, regs) ==
  IF Ti.Op.k = "imm" \/ ~HasValue(Ti.Offset) THEN Ti
  ELSE LET RegName == Ti.Op.reg
           RegValue == regs[RegName]
       IN  IF RegValue = NoValue \/ (RegName # "rsp" /\ RegName # "rbp")
           THEN [Ti EXCEPT !.IsConcreteMemory = FALSE]
           ELSE [Ti EXCEPT !.IsConcreteMemory = TRUE,
                           !.ConcreteMemoryAddress =
                              Add64(ParseHex(RegValue), ToU64(Ti.Offset[1]))]

\* XTi.Op = ...; XTi.Offset = ...; if (XTi.Offset) calculateMemAddr(XTi);
Resolve(op, off, regs) ==
  IF HasValue(off) THEN calculateMemAddr(TaintInfo(op, off), regs)
  ELSE TaintInfo(op, off)

\* ------------------------------------------------------- taint list operations
\* addToTaintList that keeps the list free of duplicates
addToTaintList_NoDuplicate(L, Ti) ==
  IF Ti.Op = NullOp THEN L
  ELSE IF Ti.Op.k = "imm" THEN L
  ELSE IF \E i \in 1..Len(L) : OperatorEq(L[i], Ti) THEN L
  ELSE Append(L, Ti)

\* addToTaintList without the test of line 78
addToTaintList_Immediates(L, Ti) ==
  IF Ti.Op = NullOp THEN L
  ELSE Append(L, Ti)

\* addToTaintList(Ti)
addToTaintList(L, Ti) ==
  IF Ti.Op = NullOp THEN L
  ELSE IF Ti.Op.k # "imm" THEN Append(L, Ti)
  ELSE L

\* the position of the first element of L that is not != Op, 0 when none
RECURSIVE FirstEqual(_, _, _)
FirstEqual(L, Op, i) ==
  IF i > Len(L) THEN 0
  ELSE IF OperatorNe(L[i], Op) THEN FirstEqual(L, Op, i + 1)
  ELSE i

\* removeFromTaintList erasing every element equal to Op
removeFromTaintList_All(L, Op) ==
  [list |-> SelectSeq(L, LAMBDA e : OperatorNe(e, Op)),
   found |-> FirstEqual(L, Op, 1) # 0]

\* removeFromTaintList(Op): the list after the erase; found is FALSE when the
\* loop falls through to llvm_unreachable
removeFromTaintList(L, Op) ==
  LET i == FirstEqual(L, Op, 1)
  IN  IF i = 0 THEN [list |-> L, found |-> FALSE]
      ELSE [list |-> SubSeq(L, 1, i - 1) \o SubSeq(L, i + 1, Len(L)),
            found |-> TRUE]

Empty_op ==
  [Op |-> NullOp, Offset |-> << 0 >>, IsConcreteMemory |-> FALSE,
   ConcreteMemoryAddress |-> Zero64]

\* the position of the first element of L that is == Op, 0 when none
RECURSIVE FirstMatch(_, _, _)
FirstMatch(L, Op, i) ==
  IF i > Len(L) THEN 0
  ELSE IF OperatorEq(L[i], Op) THEN i
  ELSE FirstMatch(L, Op, i + 1)

\* isTainted(Op)
isTainted(L, Op) ==
  LET i == FirstMatch(L, Op, 1)
  IN  IF i = 0 THEN Empty_op ELSE L[i]

\* ------------------------------------------------------------- propagateTaint
\* The outcome of one call: the list afterwards, the returned flag, the branch
\* taken (out) and whether the process died (llvm_unreachable, or the crash
\* of a null dereference).
Outcome(l, r, o, a) == [list |-> l, ret |-> r, out |-> o, abort |-> a]


\* propagateTaint tainting the source of every instruction, of one whose
\* destination is not tainted as well
propagateTaint_TaintsEverySource(L, DS, regs, ub) ==
  IF L = << >> THEN Outcome(L, FALSE, "empty", FALSE)
  ELSE
    LET SrcTi == Resolve(DS.Source, DS.SrcOffset, regs)
        DestTi == Resolve(DS.Destination, DS.DestOffset, regs)
        Taint == isTainted(L, DestTi)
        SourceIsImm == IF DS.Source = NullOp THEN ub = "imm"
                       ELSE DS.Source.k = "imm"
        Tag == IF DS.Source = NullOp THEN "ub_" ELSE ""
        Removed == removeFromTaintList(L, DestTi)
        Moved == removeFromTaintList(addToTaintList(L, SrcTi), DestTi)
    IN  IF DestTi.Op = NullOp THEN Outcome(L, TRUE, "nodest", FALSE)
        ELSE IF Taint.Op = NullOp
             THEN Outcome(addToTaintList(L, SrcTi), TRUE, "untainted", FALSE)
        ELSE IF DS.Source = NullOp /\ ub = "crash"
             THEN Outcome(L, TRUE, "ub_crash", TRUE)
        ELSE IF SourceIsImm
             THEN Outcome(Removed.list, FALSE, Tag \o "found", ~Removed.found)
        ELSE Outcome(Moved.list, TRUE, Tag \o "transfer", ~Moved.found)

\* DS.Source->isImm() at line 202 with DS.Source == nullptr is undefined: ub
\* is the outcome the build produces ("crash", "imm" or "reg").
propagateTaint(L, DS, regs, ub) ==
  IF L = << >> THEN Outcome(L, FALSE, "empty", FALSE)
  ELSE
    LET SrcTi == Resolve(DS.Source, DS.SrcOffset, regs)
        DestTi == Resolve(DS.Destination, DS.DestOffset, regs)
        Taint == isTainted(L, DestTi)
        SourceIsImm == IF DS.Source = NullOp THEN ub = "imm"
                       ELSE DS.Source.k = "imm"
        Tag == IF DS.Source = NullOp THEN "ub_" ELSE ""
        Removed == removeFromTaintList(L, DestTi)
        Moved == removeFromTaintList(addToTaintList(L, SrcTi), DestTi)
    IN  IF DestTi.Op = NullOp THEN Outcome(L, TRUE, "nodest", FALSE)
        ELSE IF Taint.Op = NullOp THEN Outcome(L, TRUE, "untainted", FALSE)
        ELSE IF DS.Source = NullOp /\ ub = "crash"
             THEN Outcome(L, TRUE, "ub_crash", TRUE)
        ELSE IF SourceIsImm
             THEN Outcome(Removed.list, FALSE, Tag \o "found", ~Removed.found)
        ELSE Outcome(Moved.list, TRUE, Tag \o "transfer", ~Moved.found)

\* ----------------------------------------------------------------- startTaint
\* startTaint seeding the destination whenever it is present
startTaint_AnyDestination(L, DS, regs, ub) ==
  LET SrcTi == Resolve(DS.Source, DS.SrcOffset, regs)
      DestTi == Resolve(DS.Destination, DS.DestOffset, regs)
      Src2Ti == Resolve(DS.Source2, DS.Src2Offset, regs)
      L1 == IF DestTi.Op # NullOp THEN addToTaintList(L, DestTi) ELSE L
      L2 == IF SrcTi.Op # NullOp THEN addToTaintList(L1, SrcTi) ELSE L1
      L3 == IF Src2Ti.Op # NullOp THEN addToTaintList(L2, Src2Ti) ELSE L2
  IN  IF L = << >> THEN Outcome(L3, TRUE, "seed", FALSE)
      ELSE IF DestTi.Op # NullOp
           THEN propagateTaint(L, DS, regs, ub)
      ELSE Outcome(L, TRUE, "none", FALSE)

startTaint(L, DS, regs, ub) ==
  LET SrcTi == Resolve(DS.Source, DS.SrcOffset, regs)
      DestTi == Resolve(DS.Destination, DS.DestOffset, regs)
      Src2Ti == Resolve(DS.Source2, DS.Src2Offset, regs)
      L1 == IF DestTi.Op # NullOp /\ HasValue(DestTi.Offset)
            THEN addToTaintList(L, DestTi) ELSE L
      L2 == IF SrcTi.Op # NullOp THEN addToTaintList(L1, SrcTi) ELSE L1
      L3 == IF Src2Ti.Op # NullOp THEN addToTaintList(L2, Src2Ti) ELSE L2
  IN  IF L = << >> THEN Outcome(L3, TRUE, "seed", FALSE)
      ELSE IF DestTi.Op # NullOp
           THEN propagateTaint(L, DS, regs, ub)
      ELSE Outcome(L, TRUE, "none", FALSE)

\* ------------------------------------------------------------------- inputs
\* an operand with its displacement, as getDestAndSrc yields them: absent, a
\* register, or a base register with a displacement
RegOperands ==
  { << RegOp("rax"), NoOffset >>, << RegOp("rsp"), NoOffset >>,
    << RegOp("rsp"), << 8 >> >> }
NoOperand == << NullOp, NoOffset >>
DestOperands == { NoOperand } \cup RegOperands
SrcOperands == { NoOperand, << ImmOp, NoOffset >> } \cup RegOperands

DestSourcePair(d, s, s2) ==
  [Destination |-> d[1], DestOffset |-> d[2],
   Source |-> s[1], SrcOffset |-> s[2],
   Source2 |-> s2[1], Src2Offset |-> s2[2]]

\* the second source is read by the seeding branch of startTaint only
Src2Operands(L) == IF L = << >> THEN SrcOperands ELSE { NoOperand }

\* what a build may do with the null dereference of line 202
UBOutcomes == {"crash", "imm", "reg"}
UBChoices(DS) == IF DS.Source = NullOp THEN UBOutcomes ELSE {"crash"}

NoRegs == [r \in Regs |-> NoValue]
WalkSnapshots == { g \in Snapshots : g["rbp"] = NoValue }
\* a BlameFunction: whether it was decompiled (BF.MF) and the registers of
\* its frame
BlameFunction(mf, regs) == [MF |-> mf, regs |-> regs]

\* -------------------------------------------------------------------- state
VARIABLES
  pc,                   \* "module": head of the loop of runOnBlameModule;
                        \* "scan": head of the loop over the instructions of
                        \* a block in runOnBlameMF; "done": runOnBlameModule
                        \* returned; "abort": the process died;
                        \* "eq", "eqdone": the comparison of two descriptors;
                        \* "prop", "propdone": one call of propagateTaint;
                        \* "seed", "seeddone": one call of startTaint;
                        \* "addr", "addrdone": one call of calculateMemAddr
  TaintList,            \* TaintAnalysis::TaintList
  AnalysisStarted,      \* local of runOnBlameModule
  Result,               \* local of runOnBlameModule
  ret,                  \* value runOnBlameModule returned (pc = "done")
  BF,                   \* the BlameFunction the module loop is at
  nf,                   \* frames of the module taken so far
  CrashSequenceStarted, \* local of runOnBlameMF
  MFResult,             \* local Result of runOnBlameMF
  n,                    \* steps of the loops over this frame taken so far
  ev,                   \* the step taken last
  pt,                   \* branch of startTaint / propagateTaint taken last
  cb,                   \* the instruction visited last is a call or a branch
  und,                  \* the frame taken last is named "_..."
  boundary,             \* the scan of this frame reached a push/pop
  crashSeen,            \* the crash-flagged instruction of this frame was met
  seeds,                \* executions of the seeding branch of startTaint
  scans,                \* calls of runOnBlameMF
  lead,                 \* every frame taken so far is named "_..."
  anySuccess,           \* some call of runOnBlameMF returned true
  mfRet,                \* what runOnBlameMF returned, if the last step left it
  blamed,               \* a blame report was printed by a walked instruction
  reported,             \* a blame report was printed (lines 207-219)
  T1, T2, eq,           \* two descriptors and the value of T1 == T2
  arg, res              \* the arguments a single function is applied to,
                        \* and what it gave

vars == << pc, TaintList, AnalysisStarted, Result, ret, BF, nf,
           CrashSequenceStarted, MFResult, n, ev, pt, cb, und,
           boundary, crashSeen, seeds, scans, lead, anySuccess, mfRet, blamed,
           reported, T1, T2, eq, arg, res >>

eqVars == << T1, T2, eq, arg, res >>
scanVars == << CrashSequenceStarted, MFResult, n, boundary, crashSeen >>

\* TaintAnalysis(), then the entry of runOnBlameModule
Init ==
  /\ pc = "module"
  /\ TaintList = << >>
  /\ AnalysisStarted = FALSE
  /\ Result = FALSE
  /\ ret = FALSE
  /\ BF = BlameFunction(FALSE, NoRegs)
  /\ nf = 0
  /\ CrashSequenceStarted = FALSE
  /\ MFResult = FALSE
  /\ n = 0
  /\ ev = "init"
  /\ pt = "none"
  /\ cb = FALSE
  /\ und = FALSE
  /\ boundary = FALSE
  /\ crashSeen = FALSE
  /\ seeds = 0
  /\ scans = 0
  /\ lead = TRUE
  /\ anySuccess = FALSE
  /\ mfRet = "none"
  /\ blamed = FALSE
  /\ reported = FALSE
  /\ T1 = Empty_op
  /\ T2 = Empty_op
  /\ eq = FALSE
  /\ arg = << >>
  /\ res = << >>

\* ------------------------------------------------------------ runOnBlameModule
\* line 318 without the test of AnalysisStarted
SkipsFrame_AnyUnderscore(started, u) == u

\* line 318: !AnalysisStarted && BF.Name.startswith("_"); u tells whether
\* the name of the frame begins with an underscore
SkipsFrame(started, u) == ~started /\ u

\* the module loop takes its next frame, named "_..." iff u
TakeFrame(e, u) ==
  /\ pc = "module" /\ nf < MaxFrames
  /\ nf' = nf + 1
  /\ und' = u
  /\ lead' = (lead /\ u)
  /\ ev' = e /\ pt' = "none" /\ cb' = FALSE
  /\ UNCHANGED << TaintList, seeds, blamed, reported >>
  /\ UNCHANGED eqVars

\* lines 318-321: a leading frame named "_..." is skipped
SkipFrame ==
  /\ \E u \in BOOLEAN :
       /\ SkipsFrame(AnalysisStarted, u)
       /\ TakeFrame("skip", u)
  /\ BF' = BlameFunction(FALSE, NoRegs)
  /\ mfRet' = "none"
  /\ UNCHANGED << pc, AnalysisStarted, Result, ret, scans, anySuccess >>
  /\ UNCHANGED scanVars

\* a missing frame that makes the walk return false instead of Result
MissingFrame_ReturnsFalse ==
  /\ \E u \in BOOLEAN :
       /\ ~SkipsFrame(AnalysisStarted, u)
       /\ TakeFrame("missing", u)
  /\ BF' = BlameFunction(FALSE, NoRegs)
  /\ AnalysisStarted' = TRUE
  /\ pc' = "done"
  /\ ret' = FALSE
  /\ mfRet' = "none"
  /\ UNCHANGED << Result, scans, anySuccess >>
  /\ UNCHANGED scanVars

\* lines 323-329: a frame that was not decompiled ends the walk
MissingFrame ==
  /\ \E u \in BOOLEAN :
       /\ ~SkipsFrame(AnalysisStarted, u)
       /\ TakeFrame("missing", u)
  /\ BF' = BlameFunction(FALSE, NoRegs)
  /\ AnalysisStarted' = TRUE
  /\ pc' = "done"
  /\ ret' = Result
  /\ mfRet' = "none"
  /\ UNCHANGED << Result, scans, anySuccess >>
  /\ UNCHANGED scanVars

\* lines 332-337 without the return of line 336
ReturnFromMF_NoStop(r, L) ==
  /\ mfRet' = IF r THEN "true" ELSE "false"
  /\ anySuccess' = (anySuccess \/ r)
  /\ Result' = (Result \/ r)
  /\ pc' = "module" /\ ret' = ret

\* lines 332-337 with Result overwritten by each frame
ReturnFromMF_Overwrite(r, L) ==
  /\ mfRet' = IF r THEN "true" ELSE "false"
  /\ anySuccess' = (anySuccess \/ r)
  /\ Result' = r
  /\ IF r /\ L = << >>
     THEN pc' = "done" /\ ret' = TRUE
     ELSE pc' = "module" /\ ret' = ret

\* lines 332-337: runOnBlameMF returned r with the taint list L
ReturnFromMF(r, L) ==
  /\ mfRet' = IF r THEN "true" ELSE "false"
  /\ anySuccess' = (anySuccess \/ r)
  /\ Result' = (Result \/ r)
  /\ IF r /\ L = << >>
     THEN pc' = "done" /\ ret' = TRUE
     ELSE pc' = "module" /\ ret' = ret

\* lines 323-332 and 245-253: runOnBlameMF is entered and reaches the last
\* instruction of the last block of the frame
EnterFrame ==
  /\ \E u \in BOOLEAN :
       /\ ~SkipsFrame(AnalysisStarted, u)
       /\ TakeFrame("enter", u)
  /\ \E regs \in WalkSnapshots : BF' = BlameFunction(TRUE, regs)
  /\ AnalysisStarted' = TRUE
  /\ pc' = "scan"
  /\ CrashSequenceStarted' = FALSE
  /\ MFResult' = FALSE
  /\ n' = 0 /\ boundary' = FALSE /\ crashSeen' = FALSE
  /\ scans' = scans + 1
  /\ mfRet' = "none"
  /\ UNCHANGED << Result, ret, anySuccess >>

\* lines 339-341: the frames are exhausted
EndModule ==
  /\ pc = "module"
  /\ pc' = "done"
  /\ ret' = Result
  /\ ev' = "endmodule" /\ pt' = "none" /\ cb' = FALSE /\ und' = FALSE
  /\ mfRet' = "none"
  /\ UNCHANGED << TaintList, AnalysisStarted, Result, BF, nf, seeds, scans,
                  lead, anySuccess, blamed, reported >>
  /\ UNCHANGED scanVars /\ UNCHANGED eqVars

\* ---------------------------------------------------------------- runOnBlameMF
\* a step of the two loops that visits no instruction
LoopStep(e) ==
  /\ pc = "scan"
  /\ ev' = e /\ pt' = "none" /\ cb' = FALSE /\ und' = FALSE
  /\ UNCHANGED << TaintList, AnalysisStarted, BF, nf, CrashSequenceStarted,
                  MFResult, boundary, crashSeen, seeds, scans, lead, blamed, reported >>
  /\ UNCHANGED eqVars

\* lines 251-253: the block is exhausted and the loop over the blocks goes on
\* to the block before it.  A frame holds its crash-flagged instruction, so
\* the first block is not left before it is met.
NextBlock ==
  /\ n < MaxSteps /\ (crashSeen \/ n + 1 < MaxSteps)
  /\ LoopStep("nextblock")
  /\ n' = n + 1
  /\ mfRet' = "none"
  /\ UNCHANGED << pc, Result, ret, anySuccess >>

\* lines 251-253, 304 and 332-337: the first block is exhausted,
\* runOnBlameMF returns Result
EndMF ==
  /\ crashSeen
  /\ LoopStep("endmf")
  /\ ReturnFromMF(MFResult, TaintList)
  /\ UNCHANGED n

\* the visit of one instruction; c tells whether it is a call or a branch
Visit(e, c) ==
  /\ pc = "scan" /\ n < MaxSteps
  /\ n' = n + 1
  /\ ev' = e /\ cb' = c /\ und' = FALSE
  /\ UNCHANGED << AnalysisStarted, BF, nf, scans, lead >>
  /\ UNCHANGED eqVars

\* the walk goes on with the instruction before this one
Continue ==
  /\ pc' = "scan"
  /\ mfRet' = "none"
  /\ UNCHANGED << Result, ret, anySuccess >>

\* lines 269-270: an instruction after the crash point in program order
PreCrash ==
  /\ ~crashSeen /\ n + 1 < MaxSteps
  /\ ~CrashSequenceStarted
  /\ \E c \in BOOLEAN : Visit("precrash", c)
  /\ Continue
  /\ pt' = "none"
  /\ UNCHANGED << TaintList, CrashSequenceStarted, MFResult, boundary,
                  crashSeen, seeds, blamed, reported >>

\* lines 255-263: the crash-flagged instruction has no blame operands
CrashNoTuple ==
  /\ ~crashSeen
  /\ \E c \in BOOLEAN : Visit("crash", c)
  /\ Continue
  /\ CrashSequenceStarted' = TRUE
  /\ crashSeen' = TRUE
  /\ pt' = "notuple"
  /\ UNCHANGED << TaintList, MFResult, boundary, seeds, blamed, reported >>

\* lines 255-267: the crash-flagged instruction is handed to startTaint
CrashStart ==
  /\ ~crashSeen
  /\ \E c \in BOOLEAN : Visit("crash", c)
  /\ CrashSequenceStarted' = TRUE
  /\ crashSeen' = TRUE
  /\ \E d \in DestOperands, s \in SrcOperands, s2 \in Src2Operands(TaintList) :
       LET DS == DestSourcePair(d, s, s2) IN
       \E ub \in UBChoices(DS) :
         LET r == startTaint(TaintList, DS, BF.regs, ub) IN
         /\ TaintList' = r.list
         /\ pt' = r.out
         /\ seeds' = IF r.out = "seed" THEN seeds + 1 ELSE seeds
         /\ IF r.abort
            THEN /\ pc' = "abort"
                 /\ mfRet' = "none" /\ UNCHANGED << Result, ret, anySuccess >>
            ELSE Continue
         /\ reported' = (reported \/ r.out \in {"found", "ub_found"})
  /\ UNCHANGED << MFResult, boundary, blamed >>

\* a call or a branch after the crash point that is not skipped but handed
\* to propagateTaint
CallOrBranch_Propagated ==
  /\ CrashSequenceStarted
  /\ Visit("callbranch", TRUE)
  /\ \E d \in DestOperands, s \in SrcOperands :
       LET DS == DestSourcePair(d, s, NoOperand) IN
       \E ub \in UBChoices(DS) :
         LET r == propagateTaint(TaintList, DS, BF.regs, ub) IN
         /\ TaintList' = r.list
         /\ pt' = r.out
         /\ blamed' = (blamed \/ r.out \in {"found", "ub_found"})
         /\ reported' = (reported \/ r.out \in {"found", "ub_found"})
         /\ IF r.abort
            THEN /\ pc' = "abort"
                 /\ mfRet' = "none" /\ UNCHANGED << Result, ret, anySuccess, MFResult >>
            ELSE /\ MFResult' = (MFResult \/ ~r.ret)
                 /\ IF ~r.ret /\ r.list = << >>
                    THEN ReturnFromMF(TRUE, r.list)
                    ELSE Continue
  /\ UNCHANGED << CrashSequenceStarted, boundary, crashSeen, seeds >>

\* lines 274-275: a call or a branch after the crash point is skipped
CallOrBranch ==
  /\ CrashSequenceStarted
  /\ Visit("callbranch", TRUE)
  /\ Continue
  /\ pt' = "none"
  /\ UNCHANGED << TaintList, CrashSequenceStarted, MFResult, boundary,
                  crashSeen, seeds, blamed, reported >>

\* lines 281-282 and 251: a push or pop breaks out of the loop over the
\* block; the loop over the blocks goes on to the block before it
PushPopNextBlock ==
  /\ CrashSequenceStarted
  /\ Visit("pushpop", FALSE)
  /\ pc' = "scan"
  /\ mfRet' = "none"
  /\ boundary' = TRUE
  /\ pt' = "none"
  /\ UNCHANGED << TaintList, Result, ret, anySuccess,
                  CrashSequenceStarted, MFResult, crashSeen, seeds, blamed, reported >>

\* lines 281-282, 251, 304 and 332-337: a push or pop breaks out of the loop
\* over the first block, runOnBlameMF returns Result
PushPopEndMF ==
  /\ CrashSequenceStarted
  /\ Visit("pushpop", FALSE)
  /\ ReturnFromMF(MFResult, TaintList)
  /\ boundary' = TRUE
  /\ pt' = "none"
  /\ UNCHANGED << TaintList, CrashSequenceStarted, MFResult, crashSeen,
                  seeds, blamed, reported >>

\* lines 284-289: the instruction has no destination and source
NoTuple ==
  /\ CrashSequenceStarted
  /\ Visit("notuple", FALSE)
  /\ Continue
  /\ pt' = "none"
  /\ UNCHANGED << TaintList, CrashSequenceStarted, MFResult, boundary,
                  crashSeen, seeds, blamed, reported >>

\* lines 291-300: backward taint analysis of one instruction.  The second
\* source of the tuple is not read by propagateTaint.
Propagate ==
  /\ CrashSequenceStarted
  /\ Visit("propagate", FALSE)
  /\ \E d \in DestOperands, s \in SrcOperands :
       LET DS == DestSourcePair(d, s, NoOperand) IN
       \E ub \in UBChoices(DS) :
         LET r == propagateTaint(TaintList, DS, BF.regs, ub) IN
         /\ TaintList' = r.list
         /\ pt' = r.out
         /\ blamed' = (blamed \/ r.out \in {"found", "ub_found"})
         /\ reported' = (reported \/ r.out \in {"found", "ub_found"})
         /\ IF r.abort
            THEN /\ pc' = "abort"
                 /\ mfRet' = "none" /\ UNCHANGED << Result, ret, anySuccess, MFResult >>
            ELSE /\ MFResult' = (MFResult \/ ~r.ret)
                 /\ IF ~r.ret /\ r.list = << >>
                    THEN ReturnFromMF(TRUE, r.list)
                    ELSE Continue
  /\ UNCHANGED << CrashSequenceStarted, boundary, crashSeen, seeds >>

Next ==
  \/ SkipFrame \/ MissingFrame \/ EnterFrame \/ EndModule
  \/ NextBlock \/ EndMF
  \/ PreCrash \/ CrashNoTuple \/ CrashStart
  \/ CallOrBranch \/ PushPopNextBlock \/ PushPopEndMF \/ NoTuple \/ Propagate

Spec == Init /\ [][Next]_vars

\* ------------------------------------------------- comparison of descriptors
\* operator== applied to two descriptors, each resolved by calculateMemAddr
\* against the snapshot of its own frame
EqOffsets == { NoOffset, << -8 >>, << 8 >> }
EqValues == { NoValue, << 1, 0 >>, << 2, 0 >> }
EqSnapshots ==
  { [r \in Regs |-> IF r = "rsp" THEN a ELSE IF r = "rbp" THEN b ELSE NoValue] :
      a \in EqValues, b \in EqValues }
EqDescriptors ==
  { Resolve(RegOp(r), o, g) : r \in Regs, o \in EqOffsets, g \in EqSnapshots }

InitEq ==
  /\ pc = "eq"
  /\ TaintList = << >>
  /\ AnalysisStarted = FALSE
  /\ Result = FALSE
  /\ ret = FALSE
  /\ BF = BlameFunction(FALSE, NoRegs)
  /\ nf = 0
  /\ CrashSequenceStarted = FALSE
  /\ MFResult = FALSE
  /\ n = 0
  /\ ev = "init"
  /\ pt = "none"
  /\ cb = FALSE
  /\ und = FALSE
  /\ boundary = FALSE
  /\ crashSeen = FALSE
  /\ seeds = 0
  /\ scans = 0
  /\ lead = TRUE
  /\ anySuccess = FALSE
  /\ mfRet = "none"
  /\ blamed = FALSE
  /\ reported = FALSE
  /\ T1 \in EqDescriptors
  /\ T2 \in EqDescriptors
  /\ eq = FALSE
  /\ arg = << >>
  /\ res = << >>

\* lines 22-35: T1 == T2 is evaluated
Compare ==
  /\ pc = "eq"
  /\ eq' = OperatorEq(T1, T2)
  /\ pc' = "eqdone"
  /\ UNCHANGED << TaintList, AnalysisStarted, Result, ret, BF, nf,
                  CrashSequenceStarted, MFResult, n, ev, pt, cb, und,
                  boundary, crashSeen, seeds, scans, lead, anySuccess, mfRet,
                  blamed, reported, T1, T2, arg, res >>

NextEq == Compare

SpecEq == InitEq /\ [][NextEq]_vars

\* ------------------------------------------------------- single function calls
\* the variables of the walk at the entry of runOnBlameModule
WalkAtEntry ==
  /\ TaintList = << >>
  /\ AnalysisStarted = FALSE
  /\ Result = FALSE
  /\ ret = FALSE
  /\ BF = BlameFunction(FALSE, NoRegs)
  /\ nf = 0
  /\ CrashSequenceStarted = FALSE
  /\ MFResult = FALSE
  /\ n = 0
  /\ ev = "init"
  /\ pt = "none"
  /\ cb = FALSE
  /\ und = FALSE
  /\ boundary = FALSE
  /\ crashSeen = FALSE
  /\ seeds = 0
  /\ scans = 0
  /\ lead = TRUE
  /\ anySuccess = FALSE
  /\ mfRet = "none"
  /\ blamed = FALSE
  /\ reported = FALSE
  /\ T1 = Empty_op
  /\ T2 = Empty_op
  /\ eq = FALSE

walkVars == << TaintList, AnalysisStarted, Result, ret, BF, nf,
               CrashSequenceStarted, MFResult, n, ev, pt, cb, und,
               boundary, crashSeen, seeds, scans, lead, anySuccess, mfRet,
               blamed, reported, T1, T2, eq >>

\* --------------------------------------------------- one call of propagateTaint
\* the descriptors addToTaintList can have inserted: no null and no immediate
\* operand (lines 76-79), each resolved against the snapshot of some frame
ListDescriptors ==
  { Resolve(o[1], o[2], g) : o \in RegOperands, g \in WalkSnapshots }

RECURSIVE ListsUpTo(_)
ListsUpTo(k) ==
  IF k = 0 THEN { << >> }
  ELSE LET S == ListsUpTo(k - 1)
       IN  S \cup { Append(l, e) : l \in { x \in S : Len(x) = k - 1 },
                                    e \in ListDescriptors }

\* propagateTaint(DS) is applied to a taint list, in the frame of some snapshot
PropArgs ==
  { [L |-> l, DS |-> DestSourcePair(d, s, NoOperand), regs |-> g, ub |-> u] :
      l \in ListsUpTo(MaxList), d \in DestOperands, s \in SrcOperands,
      g \in WalkSnapshots, u \in UBOutcomes }

InitProp ==
  /\ pc = "prop"
  /\ WalkAtEntry
  /\ arg \in { a \in PropArgs : a.ub \in UBChoices(a.DS) }
  /\ res = << >>

\* lines 173-229
CallPropagate ==
  /\ pc = "prop"
  /\ res' = propagateTaint(arg.L, arg.DS, arg.regs, arg.ub)
  /\ pc' = "propdone"
  /\ UNCHANGED walkVars /\ UNCHANGED arg

NextProp == CallPropagate

SpecProp == InitProp /\ [][NextProp]_vars

\* ------------------------------------------------------- one call of startTaint
\* startTaint(DS) on the empty taint list, in the frame of some snapshot
SeedArgs ==
  { [L |-> << >>, DS |-> DestSourcePair(d, s, s2), regs |-> g] :
      d \in DestOperands, s \in SrcOperands, s2 \in SrcOperands,
      g \in WalkSnapshots }

InitSeed ==
  /\ pc = "seed"
  /\ WalkAtEntry
  /\ arg \in SeedArgs
  /\ res = << >>

\* lines 137-169; line 202 is not reached from the seeding branch
CallStartTaint ==
  /\ pc = "seed"
  /\ \E ub \in UBOutcomes : res' = startTaint(arg.L, arg.DS, arg.regs, ub)
  /\ pc' = "seeddone"
  /\ UNCHANGED walkVars /\ UNCHANGED arg

NextSeed == CallStartTaint

SpecSeed == InitSeed /\ [][NextSeed]_vars

\* ------------------------------------------------- one call of calculateMemAddr
\* register values of a core file: none, small ones, and the largest
AddrValues ==
  { NoValue, << 1, 0 >>, << 4 >>,
    << 15, 15, 15, 15, 15, 15, 15, 15, 15, 15, 15, 15, 15, 15, 15, 15 >> }
AddrSnapshots == [Regs -> AddrValues]
AddrOffsets == { NoOffset, << -8 >>, << 0 >>, << 8 >> }
AddrOperands == { ImmOp } \cup { RegOp(r) : r \in Regs }

\* calculateMemAddr(Ti) is applied to a fresh descriptor
InitAddr ==
  /\ pc = "addr"
  /\ WalkAtEntry
  /\ arg \in { [Ti |-> TaintInfo(o, f), regs |-> g] :
                 o \in AddrOperands, f \in AddrOffsets, g \in AddrSnapshots }
  /\ res = << >>

\* lines 43-73
CallCalculateMemAddr ==
  /\ pc = "addr"
  /\ res' = calculateMemAddr(arg.Ti, arg.regs)
  /\ pc' = "addrdone"
  /\ UNCHANGED walkVars /\ UNCHANGED arg

NextAddr == CallCalculateMemAddr

SpecAddr == InitAddr /\ [][NextAddr]_vars

\* ====================================================================== claims
\* C1 (as claimed): once the scan of a frame has reached a push/pop after the
\* crash point, no earlier instruction of that frame is handed to
\* propagateTaint, in the same block or in a block before it.
C1_BoundaryStopsScan == ~(boundary /\ ev = "propagate")

\* C2 (as claimed): a Terminate-Found of an instruction walked after the crash
\* point ends the whole walk at once, runOnBlameModule returning true,
\* whatever is left in the taint list.
C2_FoundEndsWalk ==
  (ev = "propagate" /\ pt = "found") => (pc = "done" /\ ret = TRUE)

\* C2 (amended): a Terminate-Found of an instruction walked after the crash
\* point ends the walk at once with true when it leaves the taint list
\* empty; when it does not, the walk goes on, and in both cases
\* runOnBlameModule returns true when it returns.
C2_FoundEndsWalkWhenEmpty ==
  /\ (ev = "propagate" /\ pt = "found" /\ TaintList = << >>)
       => (pc = "done" /\ ret = TRUE)
  /\ (ev = "propagate" /\ pt = "found" /\ TaintList # << >>) => pc = "scan"
  /\ (blamed /\ pc = "done") => ret = TRUE

C2_Witness == blamed /\ pc = "done" /\ ret = TRUE /\ TaintList # << >>

\* C3 (as claimed): the seeding branch of startTaint runs at most once in a
\* module walk, and only in the first frame scanned.
C3_SeedsOnceInFirstFrame == seeds <= 1 /\ (pt = "seed" => scans = 1)

\* C4 (as claimed): the visit of a call or a branch, wherever it stands in
\* the frame, leaves the taint list as it was.
C4_CallBranchKeepsList ==
  [][(cb' /\ n' = n + 1) => TaintList' = TaintList]_vars

\* C4 (amended): the visit of a call or a branch that does not carry the
\* crash flag leaves the taint list as it was.
C4_UnflaggedCallBranchKeepsList ==
  [][(cb' /\ n' = n + 1 /\ ev' # "crash") => TaintList' = TaintList]_vars

C4_Witness == cb /\ ev = "callbranch" /\ TaintList # << >>

\* C5: a considered frame that was not decompiled makes runOnBlameModule
\* return at once the success accumulated from the frames before it; no
\* frame is scanned and the taint list is not changed, in that step and after.
C5_MissingFrameReturns ==
  [][ /\ (ev' = "missing" /\ nf' = nf + 1)
         => /\ pc' = "done"
            /\ ret' = anySuccess
            /\ TaintList' = TaintList
            /\ scans' = scans
      /\ pc = "done" => (pc' = "done" /\ scans' = scans /\ ret' = ret) ]_vars

C5_Witness == ev = "missing" /\ pc = "done" /\ ret = TRUE /\ TaintList # << >>

\* C6: a frame is skipped iff it and every frame before it is named "_...";
\* so the first frame with another name is the first one considered, and a
\* frame named "_..." after it is considered too.
C6_SkipsLeadingRun ==
  (ev \in {"skip", "missing", "enter"}) => ((ev = "skip") <=> lead)

C6_Witness == ev = "enter" /\ und /\ scans = 2

\* C7: runOnBlameModule returns true iff some frame scan returned true; a
\* scan that returns true with the taint list empty ends the walk, any other
\* return takes the walk back to the loop over the frames.
C7_ResultIsAnySuccess ==
  /\ pc = "done" => (ret <=> anySuccess)
  /\ mfRet # "none" => (pc = "done" <=> (mfRet = "true" /\ TaintList = << >>))
  /\ (mfRet # "none" /\ pc # "done") => pc = "module"

C7_Witness == mfRet = "true" /\ pc = "module" /\ TaintList # << >>

SameReg == T1.Op.reg = T2.Op.reg
SameAddr == T1.ConcreteMemoryAddress = T2.ConcreteMemoryAddress

\* C8 (as claimed): descriptors of which at least one is not resolved are
\* equal iff their registers are, whatever their displacements.
C8_UnresolvedByRegister ==
  (pc = "eqdone" /\ ~(T1.IsConcreteMemory /\ T2.IsConcreteMemory))
    => (eq <=> SameReg)

\* C8 (amended): two descriptors that are both not resolved are equal iff
\* their registers are, whatever their displacements; a resolved and an
\* unresolved descriptor are never equal.
C8_BothUnresolvedByRegister ==
  /\ (pc = "eqdone" /\ ~T1.IsConcreteMemory /\ ~T2.IsConcreteMemory)
       => (eq <=> SameReg)
  /\ (pc = "eqdone" /\ T1.IsConcreteMemory # T2.IsConcreteMemory) => ~eq

C8_Witness ==
  /\ pc = "eqdone" /\ eq
  /\ ~T1.IsConcreteMemory /\ ~T2.IsConcreteMemory
  /\ T1.Offset # T2.Offset /\ HasValue(T1.Offset) /\ HasValue(T2.Offset)

\* C9: descriptors that are both resolved are equal iff their addresses are,
\* whatever their registers.
C9_ResolvedByAddress ==
  (pc = "eqdone" /\ T1.IsConcreteMemory /\ T2.IsConcreteMemory)
    => (eq <=> SameAddr)

C9_Witness ==
  /\ pc = "eqdone" /\ eq
  /\ T1.IsConcreteMemory /\ T2.IsConcreteMemory
  /\ ~SameReg

\* the list L without its element at position i
WithoutAt(L, i) == SubSeq(L, 1, i - 1) \o SubSeq(L, i + 1, Len(L))

\* the positions of L that hold an element equal to D
EqualAt(L, D) == { i \in 1..Len(L) : OperatorEq(L[i], D) }

\* C10: a Terminate-Found leaves the taint list one element shorter: the first
\* element equal to the destination of the instruction is gone and nothing
\* was inserted.
C10_FoundRemovesOne ==
  [][(pt' = "found" /\ n' = n + 1)
       => /\ Len(TaintList') = Len(TaintList) - 1
          /\ \E d \in RegOperands :
               LET D == Resolve(d[1], d[2], BF.regs) IN
               /\ EqualAt(TaintList, D) # {}
               /\ \E i \in EqualAt(TaintList, D) :
                    /\ \A j \in EqualAt(TaintList, D) : i <= j
                    /\ TaintList' = WithoutAt(TaintList, i) ]_vars

C10_Witness == pt = "found" /\ Len(TaintList) = 2

\* the descriptors propagateTaint builds from the tuple it is applied to
ArgDestTi == Resolve(arg.DS.Destination, arg.DS.DestOffset, arg.regs)
ArgSrcTi == Resolve(arg.DS.Source, arg.DS.SrcOffset, arg.regs)

\* the destination of the tuple is present and equal to an element of the list
ArgDestTainted ==
  /\ arg.DS.Destination # NullOp
  /\ EqualAt(arg.L, ArgDestTi) # {}

\* C11: a call of propagateTaint on a tuple whose destination is tainted and
\* whose first source is an operand that is not a constant leaves the taint
\* list at its size: the descriptor of the first source was inserted and one
\* element equal to the destination was removed; the call returns true.
C11_TransferKeepsSize ==
  (pc = "propdone" /\ ArgDestTainted /\ arg.DS.Source.k = "reg")
    => /\ res.ret = TRUE /\ ~res.abort
       /\ Len(res.list) = Len(arg.L)
       /\ \E i \in EqualAt(Append(arg.L, ArgSrcTi), ArgDestTi) :
            res.list = WithoutAt(Append(arg.L, ArgSrcTi), i)

C11_Witness ==
  /\ pc = "propdone" /\ ArgDestTainted /\ arg.DS.Source.k = "reg"
  /\ Len(arg.L) = 2 /\ res.out = "transfer"
  /\ EqualAt(arg.L, ArgSrcTi) # {}

\* C12 (as claimed): the module walk eventually returns for every finite crash
\* trace: as long as runOnBlameModule has not returned the walk has a step to
\* take, each step visiting the next instruction backward or the next frame.
C12_WalkReturns == pc = "done" \/ ENABLED Next

\* C13: removeFromTaintList is only called with a descriptor that is equal to
\* an element of the taint list, so its loop never falls through to
\* llvm_unreachable("Operand not in Taint List"): a call of propagateTaint
\* that removes (a Terminate-Found or a transfer, also one whose source and
\* destination compare equal) finds the element, and the process dies in
\* propagateTaint from nothing but the null dereference of line 202.
C13_RemovalFindsElement ==
  pc = "propdone"
    => /\ res.abort => res.out = "ub_crash"
       /\ res.out \in {"found", "ub_found"}
            => EqualAt(arg.L, ArgDestTi) # {}
       /\ res.out \in {"transfer", "ub_transfer"}
            => EqualAt(addToTaintList(arg.L, ArgSrcTi), ArgDestTi) # {}

C13_Witness ==
  /\ pc = "propdone" /\ res.out = "transfer" /\ ~res.abort
  /\ OperatorEq(ArgSrcTi, ArgDestTi)
  /\ Cardinality(EqualAt(arg.L, ArgDestTi)) = 1

\* C14: at every point of the walk no element of the taint list has a null
\* operand or an immediate operand.
C14_NoNullNoImmediate ==
  \A i \in 1..Len(TaintList) : TaintList[i].Op.k = "reg"

C14_Witness ==
  /\ pt \in {"transfer", "ub_transfer"}
  /\ scans = 2
  /\ TaintList # << >>

\* the third descriptor startTaint builds from the tuple it is applied to
ArgSrc2Ti == Resolve(arg.DS.Source2, arg.DS.Src2Offset, arg.regs)

\* the list of T when c holds, the empty list otherwise
SeedIf(c, T) == IF c THEN << T >> ELSE << >>

\* C15 (as claimed): seeding an empty taint list inserts the destination if
\* and only if it is present and carries a displacement, inserts each of the
\* first and the second source that is present, and inserts nothing else.
C15_SeedsPresentSources ==
  pc = "seeddone"
    => /\ res.list =
            SeedIf(arg.DS.Destination # NullOp /\ HasValue(arg.DS.DestOffset),
                   ArgDestTi)
            \o SeedIf(arg.DS.Source # NullOp, ArgSrcTi)
            \o SeedIf(arg.DS.Source2 # NullOp, ArgSrc2Ti)
       /\ Len(res.list) <= 3

\* C15 (amended): seeding an empty taint list inserts the destination if and
\* only if it is present and carries a displacement, inserts each of the
\* first and the second source that is present and not an immediate, and
\* inserts nothing else: at most three elements.
C15_SeedsRegisterSources ==
  pc = "seeddone"
    => /\ res.list =
            SeedIf(arg.DS.Destination # NullOp /\ HasValue(arg.DS.DestOffset),
                   ArgDestTi)
            \o SeedIf(arg.DS.Source.k = "reg", ArgSrcTi)
            \o SeedIf(arg.DS.Source2.k = "reg", ArgSrc2Ti)
       /\ Len(res.list) <= 3

C15_Witness ==
  /\ pc = "seeddone"
  /\ arg.DS.Destination # NullOp /\ ~HasValue(arg.DS.DestOffset)
  /\ arg.DS.Source = ImmOp
  /\ arg.DS.Source2.k = "reg"
  /\ Len(res.list) = 1

\* the sixteen hexadecimal digits of a uint64_t, most significant first
HexOf(v) ==
  [i \in 1..16 |->
     LET limb == v[4 - (i - 1) \div 4]
         k == 3 - ((i - 1) % 4)
     IN  (limb \div (IF k = 3 THEN 4096 ELSE IF k = 2 THEN 256
                     ELSE IF k = 1 THEN 16 ELSE 1)) % 16]

\* a hexadecimal string of at most sixteen digits, padded with zeros
PadHex(s) ==
  [i \in 1..16 |-> IF i <= 16 - Len(s) THEN 0 ELSE s[i - (16 - Len(s))]]

\* the digits ds plus the integer c added at digit i, modulo 2^64
RECURSIVE AddAt(_, _, _)
AddAt(ds, i, c) ==
  IF i = 0 THEN ds
  ELSE LET t == ds[i] + c
       IN  AddAt([ds EXCEPT ![i] = t % 16], i - 1, (t - (t % 16)) \div 16)

\* the operand is not an immediate, carries a displacement, its base register
\* is rsp or rbp and the snapshot has a value for it
ArgResolvable ==
  /\ arg.Ti.Op.k # "imm"
  /\ HasValue(arg.Ti.Offset)
  /\ arg.Ti.Op.reg \in {"rsp", "rbp"}
  /\ arg.regs[arg.Ti.Op.reg] # NoValue

\* C16: calculateMemAddr marks a descriptor resolved exactly when its operand
\* is not an immediate, carries a displacement, has the base register rsp or
\* rbp, and the snapshot holds a non-empty value for that register; the
\* address is then the hexadecimal value of the register plus the signed
\* displacement modulo 2^64.  The operand and the displacement are kept.
C16_ResolvedAddress ==
  pc = "addrdone"
    => /\ IsTaintMemAddr(res) <=> ArgResolvable
       /\ ArgResolvable
            => HexOf(GetTaintMemAddr(res)) =
                 AddAt(PadHex(arg.regs[arg.Ti.Op.reg]), 16, arg.Ti.Offset[1])
       /\ res.Op = arg.Ti.Op /\ res.Offset = arg.Ti.Offset

C16_Witness ==
  /\ pc = "addrdone"
  /\ IsTaintMemAddr(res)
  /\ arg.Ti.Offset = << -8 >>
  /\ arg.regs[arg.Ti.Op.reg] = << 4 >>
  /\ GetTaintMemAddr(res) = << 65532, 65535, 65535, 65535 >>


\* C17: propagateTaint leaves the taint list as it is in its three
\* pass-through cases: on an empty list it returns false; on a non-empty list
\* and a tuple with no destination, or with a destination equal to no
\* element of the list, it returns true.
C17_PassThroughKeepsList ==
  pc = "propdone"
    => /\ arg.L = << >>
            => (res.ret = FALSE /\ res.list = arg.L /\ ~res.abort)
       /\ (arg.L # << >> /\ arg.DS.Destination = NullOp)
            => (res.ret = TRUE /\ res.list = arg.L /\ ~res.abort)
       /\ (arg.L # << >> /\ arg.DS.Destination # NullOp
             /\ EqualAt(arg.L, ArgDestTi) = {})
            => (res.ret = TRUE /\ res.list = arg.L /\ ~res.abort)

C17_Witness ==
  /\ pc = "propdone"
  /\ Len(arg.L) = 2
  /\ arg.DS.Destination # NullOp
  /\ EqualAt(arg.L, ArgDestTi) = {}
  /\ arg.DS.Source.k = "reg"
  /\ res.ret = TRUE


\* C18 (as claimed): when propagateTaint has printed a blame report, be it
\* called from the scan or from startTaint on the crash-flagged instruction
\* of a later frame, runOnBlameModule returns true.
C18_ReportMeansTrue == (reported /\ pc = "done") => ret = TRUE


\* C19 (as claimed): runOnBlameModule returns true only when a blame report
\* was printed; in particular a walk that never put an element into the taint
\* list does not return true.
C19_TrueMeansReport == (pc = "done" /\ ret = TRUE) => reported


\* C20 (as claimed): whenever propagateTaint has found the destination of a
\* tuple in the taint list, the first source of the tuple is present when it
\* is tested for being a constant at line 202: no call evaluates
\* DS.Source->isImm() on a null pointer.
C20_SourcePresentWhenTested ==
  pt \notin {"ub_crash", "ub_found", "ub_transfer"}

====
